---- MODULE Spec2Model ----
(***************************************************************************)
(* The components of the useEffect article and of its example file, as     *)
(* state machines.                                                         *)
(*                                                                         *)
(*   examples/cleanUpFunction.js   App and TimerComponent  (Spec, FairSpec)*)
(*   README.md                     Timer, without and with cleanup         *)
(*                                                         (SpecTimer)     *)
(*   README.md and its drafts      MyComponent, without and with the       *)
(*                                 empty array       (SpecMyComponent)     *)
(*   README.md and its drafts      User and Counter         (SpecDeps)     *)
(*                                                                         *)
(* The framework is not part of the repository; its behaviour is taken     *)
(* from what the article says about it: a state update re-renders the      *)
(* component, an effect runs after the render that scheduled it, the       *)
(* dependency array decides whether a render schedules the effect, and the *)
(* cleanup function runs when the component is unmounted.                  *)
(*                                                                         *)
(* A hook's state is modelled by two values: the latest state (every call  *)
(* of the setter applied) and the value the last render captured, which is *)
(* what the JSX shows and what the closures created by that render read.   *)
(***************************************************************************)
EXTENDS Integers, Sequences, FiniteSets

\* Bounds of the model.
MaxClicks == 4      \* clicks on App's button
MaxCount == 3       \* interval callbacks per mount of a timer
MaxLate == 2        \* interval callbacks fired while the owner is unmounted
MaxMounts == 2      \* mounts of a component of the article
MaxRefs == 2        \* distinct references a fetch can resolve to
MaxRuns == 3        \* where the counters of MyComponent's history stop
MaxRenders == 3     \* re-renders of User, and of Counter
MaxValue == 2       \* the highest count given to Counter's setCount

VARIABLES
    \* ---- examples/cleanUpFunction.js ----
    showTimer,          \* App: latest state of useState(true)
    renderedShowTimer,  \* App: showTimer as captured by App's last render
    clicks,             \* history: calls of toggleTimer
    mounted,            \* a TimerComponent instance is in the tree
    count,              \* TimerComponent: latest state of useState(0)
    shownCount,         \* TimerComponent: count in the <h1> of its last render
    effectPending,      \* TimerComponent: the effect is scheduled, not yet run
    interval,           \* handle held by the effect closure (0: none)
    hasCleanup,         \* the effect of this mount returned its cleanup
    intervals,          \* the active interval handles
    nextHandle,         \* the handle the next setInterval returns
    ticks,              \* history: callbacks fired since the current mount
    lateTicks,          \* history: callbacks fired while unmounted
    effectRuns,         \* history: runs of the effect since the current mount
    cleanupRuns,        \* history: runs of the cleanup function
    unmounts,           \* history: unmounts of TimerComponent
    \* ---- README.md, Timer ----
    timerVariant,       \* which Timer of the article is mounted (last)
    timerMounted,       \* a Timer instance is in the tree
    timerMounts,        \* history: mounts of Timer
    time,               \* Timer: latest state of useState(0)
    shownTime,          \* Timer: time as captured by its last render
    timerEffectPending, \* Timer: the effect is scheduled, not yet run
    timerInterval,      \* handle the effect of this mount got (0: none)
    timerHasCleanup,    \* the effect of this mount returned a cleanup
    timerIntervals,     \* the active interval handles
    timerNextHandle,    \* the handle the next setInterval returns
    timerTicks,         \* history: callbacks fired since the current mount
    timerLateTicks,     \* history: callbacks fired against an unmounted Timer
    \* ---- README.md and its drafts, MyComponent ----
    mcVariant,          \* which MyComponent of the article is mounted (last)
    mcMounted,          \* a MyComponent instance is in the tree
    mcMounts,           \* history: mounts of MyComponent
    data,               \* MyComponent: latest state of useState([]), a reference
    shownData,          \* MyComponent: data as captured by its last render
    mcEffectPending,    \* MyComponent: the effect is scheduled, not yet run
    mcFetching,         \* the mounts whose fetch has not resolved yet
    mcEffectRuns,       \* history: runs of the effect since the current mount
    mcRenders,          \* history: renders since the current mount
    \* ---- README.md and its drafts, User and Counter ----
    name,               \* User: the name prop of its last render
    documentTitle,      \* document.title
    userEffectPending,  \* User: the effect is scheduled, not yet run
    userRenders,        \* history: re-renders of User
    userChanges,        \* history: re-renders of User with another name
    userEffectRuns,     \* history: runs of User's effect
    counterCount,       \* Counter: latest state of useState(0)
    shownCounterCount,  \* Counter: count as captured by its last render
    counterEffectPending, \* Counter: the effect is scheduled, not yet run
    log,                \* the counts console.log was called with
    counterRenders,     \* history: re-renders of Counter
    counterChanges      \* history: re-renders of Counter with another count

appVars == <<showTimer, renderedShowTimer, clicks, mounted, count, shownCount,
             effectPending, interval, hasCleanup, intervals, nextHandle,
             ticks, lateTicks, effectRuns, cleanupRuns, unmounts>>

timerVars == <<timerVariant, timerMounted, timerMounts, time, shownTime,
               timerEffectPending, timerInterval, timerHasCleanup,
               timerIntervals, timerNextHandle, timerTicks, timerLateTicks>>

mcVars == <<mcVariant, mcMounted, mcMounts, data, shownData, mcEffectPending,
            mcFetching, mcEffectRuns, mcRenders>>

depsVars == <<name, documentTitle, userEffectPending, userRenders, userChanges,
              userEffectRuns, counterCount, shownCounterCount,
              counterEffectPending, log, counterRenders, counterChanges>>

vars == <<appVars, timerVars, mcVars, depsVars>>

\* What a step of one group of components leaves alone.
notApp == <<timerVars, mcVars, depsVars>>
notTimer == <<appVars, mcVars, depsVars>>
notMyComponent == <<appVars, timerVars, depsVars>>
notDeps == <<appVars, timerVars, mcVars>>

----------------------------------------------------------------------------
(* The framework, as the article describes it.                             *)

\* A dependency array: the list given as second argument of useEffect.
Deps(list) == [given |-> TRUE, list |-> list]

\* useEffect called with a function only, no dependency array.
NoDeps == [given |-> FALSE, list |-> << >>]

DepsChangedAlways(prev, next) == TRUE

\* Whether a value of the array changed between two renders.
DepsChanged(prev, next) ==
    \E i \in 1..Len(next) : prev[i] # next[i]

EffectScheduledEveryRender(firstRender, prev, next) == TRUE

\* Whether a render schedules the effect: always on the first render of a
\* mount; later after every render without a dependency array, and with
\* one only when a dependency changed since the previous render (never,
\* for the empty array).
EffectScheduled(firstRender, prev, next) ==
    \/ firstRender
    \/ ~next.given
    \/ next.given /\ DepsChanged(prev.list, next.list)

----------------------------------------------------------------------------
(* examples/cleanUpFunction.js                                             *)

TimerComponentNoDeps == NoDeps

\* The dependency array of TimerComponent's effect: [].
TimerComponentDeps == Deps(<< >>)

UseStateKept(initial, previous) == previous

\* useState(0) in the first render of a mount: the state of the new
\* instance is the initial value, whatever an earlier instance held.
UseState(initial, previous) == initial

UpdaterStale(prevCount) == 0 + 1

\* The updater given to setCount: (prevCount) => prevCount + 1.
Updater(prevCount) == prevCount + 1

SetIntervalNot(active, handle) == active

\* setInterval(callback, 1000): handle becomes an active interval.
SetInterval(active, handle) == active \cup {handle}

RendersTimerInverted(shown) == ~shown

\* App's JSX: {showTimer && <TimerComponent />}.
RendersTimer(shown) == shown

\* App's JSX: {showTimer ? 'Unmount Timer' : 'Mount Timer'}.
ButtonLabel(shown) == IF shown THEN "Unmount Timer" ELSE "Mount Timer"

\* The text of the button, as App's last render left it.
buttonLabel == ButtonLabel(renderedShowTimer)

CleanupNothing(active, handle) == active

CleanupFirstHandle(active, handle) == active \ {1}

\* The cleanup function of TimerComponent's effect: clearInterval(interval).
Cleanup(active, handle) == active \ {handle}

\* const [showTimer, setShowTimer] = useState(true), and TimerComponent as
\* mounted by App's first render, its effect scheduled.
AppInit ==
    /\ showTimer = TRUE
    /\ renderedShowTimer = TRUE
    /\ clicks = 0
    /\ mounted = TRUE
    /\ count = 0
    /\ shownCount = 0
    /\ effectPending = TRUE
    /\ interval = 0
    /\ hasCleanup = FALSE
    /\ intervals = {}
    /\ nextHandle = 1
    /\ ticks = 0
    /\ lateTicks = 0
    /\ effectRuns = 0
    /\ cleanupRuns = 0
    /\ unmounts = 0

\* toggleTimer: setShowTimer(!showTimer), showTimer being the value the
\* last render of App captured.
toggleTimer ==
    /\ clicks < MaxClicks
    /\ showTimer' = ~renderedShowTimer
    /\ clicks' = clicks + 1
    /\ UNCHANGED <<renderedShowTimer, mounted, count, shownCount, effectPending,
                   interval, hasCleanup, intervals, nextHandle, ticks,
                   lateTicks, effectRuns, cleanupRuns, unmounts>>
    /\ UNCHANGED notApp

\* App re-renders after setShowTimer changed its state (scheduled effects
\* run before the next render). {showTimer && <TimerComponent />} mounts a
\* new TimerComponent, or unmounts the present one, whose cleanup then runs.
AppRender ==
    /\ showTimer # renderedShowTimer
    /\ ~effectPending
    /\ renderedShowTimer' = showTimer
    /\ IF RendersTimer(showTimer)
       THEN /\ mounted' = TRUE
            /\ count' = UseState(0, count)
            /\ shownCount' = UseState(0, count)
            /\ effectPending' = EffectScheduled(TRUE, TimerComponentDeps, TimerComponentDeps)
            /\ interval' = 0
            /\ hasCleanup' = FALSE
            /\ ticks' = 0
            /\ effectRuns' = 0
            /\ UNCHANGED <<intervals, cleanupRuns, unmounts>>
       ELSE /\ mounted' = FALSE
            /\ unmounts' = unmounts + 1
            /\ intervals' = IF hasCleanup THEN Cleanup(intervals, interval)
                                          ELSE intervals
            /\ cleanupRuns' = IF hasCleanup THEN cleanupRuns + 1 ELSE cleanupRuns
            /\ hasCleanup' = FALSE
            /\ UNCHANGED <<count, shownCount, effectPending, interval, ticks,
                           effectRuns>>
    /\ UNCHANGED <<showTimer, clicks, nextHandle, lateTicks>>
    /\ UNCHANGED notApp

\* The effect of TimerComponent: the cleanup of its previous run, if any,
\* then const interval = setInterval(..., 1000) and return of the cleanup.
TimerComponentEffect ==
    /\ mounted
    /\ effectPending
    /\ effectPending' = FALSE
    /\ intervals' = SetInterval(IF hasCleanup THEN Cleanup(intervals, interval)
                                              ELSE intervals, nextHandle)
    /\ cleanupRuns' = IF hasCleanup THEN cleanupRuns + 1 ELSE cleanupRuns
    /\ interval' = nextHandle
    /\ nextHandle' = nextHandle + 1
    /\ hasCleanup' = TRUE
    /\ effectRuns' = effectRuns + 1
    /\ UNCHANGED <<showTimer, renderedShowTimer, clicks, mounted, count,
                   shownCount, ticks, lateTicks, unmounts>>
    /\ UNCHANGED notApp

\* The callback of active interval h fires. The state of an unmounted
\* component is gone: the update of a callback that outlives its owner is
\* dropped.
IntervalCallback(h) ==
    /\ h \in intervals
    /\ IF mounted /\ h = interval
       THEN /\ ticks < MaxCount
            /\ count' = Updater(count)
            /\ ticks' = ticks + 1
            /\ UNCHANGED lateTicks
       ELSE /\ lateTicks < MaxLate
            /\ lateTicks' = lateTicks + 1
            /\ UNCHANGED <<count, ticks>>
    /\ UNCHANGED <<showTimer, renderedShowTimer, clicks, mounted, shownCount,
                   effectPending, interval, hasCleanup, intervals, nextHandle,
                   effectRuns, cleanupRuns, unmounts>>
    /\ UNCHANGED notApp

\* TimerComponent re-renders after setCount changed its state.
TimerComponentRender ==
    /\ mounted
    /\ count # shownCount
    /\ ~effectPending
    /\ shownCount' = count
    /\ effectPending' = EffectScheduled(FALSE, TimerComponentDeps, TimerComponentDeps)
    /\ UNCHANGED <<showTimer, renderedShowTimer, clicks, mounted, count,
                   interval, hasCleanup, intervals, nextHandle, ticks,
                   lateTicks, effectRuns, cleanupRuns, unmounts>>
    /\ UNCHANGED notApp

AppNext ==
    \/ toggleTimer
    \/ AppRender
    \/ TimerComponentEffect
    \/ \E h \in intervals : IntervalCallback(h)
    \/ TimerComponentRender

----------------------------------------------------------------------------
(* README.md, "What is the cleanup function in useEffect?": Timer, first   *)
(* with an effect that returns nothing, then with one that returns a       *)
(* cleanup. The article shows no parent of Timer: it is mounted, and       *)
(* unmounted "when we navigate to a new page".                             *)

TimerVariants == {"no cleanup", "cleanup"}

ReturnsCleanupAlways(variant) == TRUE

\* Whether the effect of this Timer returns () => clearInterval(interval).
ReturnsCleanup(variant) == variant = "cleanup"

\* The dependency array of Timer's effect: [].
TimerDeps == Deps(<< >>)

\* The value the interval callback gives to setTime: setTime(1).
SetTimeArg(prevTime) == 1

TimerInit ==
    /\ timerVariant = "no cleanup"
    /\ timerMounted = FALSE
    /\ timerMounts = 0
    /\ time = 0
    /\ shownTime = 0
    /\ timerEffectPending = FALSE
    /\ timerInterval = 0
    /\ timerHasCleanup = FALSE
    /\ timerIntervals = {}
    /\ timerNextHandle = 1
    /\ timerTicks = 0
    /\ timerLateTicks = 0

\* Timer is mounted: useState(0), first render, effect scheduled.
TimerMount(variant) ==
    /\ ~timerMounted
    /\ timerMounts < MaxMounts
    /\ timerVariant' = variant
    /\ timerMounted' = TRUE
    /\ timerMounts' = timerMounts + 1
    /\ time' = 0
    /\ shownTime' = 0
    /\ timerEffectPending' = EffectScheduled(TRUE, TimerDeps, TimerDeps)
    /\ timerInterval' = 0
    /\ timerHasCleanup' = FALSE
    /\ timerTicks' = 0
    /\ UNCHANGED <<timerIntervals, timerNextHandle, timerLateTicks>>
    /\ UNCHANGED notTimer

\* The effect of Timer: setInterval(() => setTime(1), 1000), whose handle
\* only the variant with the cleanup keeps.
TimerEffect ==
    /\ timerMounted
    /\ timerEffectPending
    /\ timerEffectPending' = FALSE
    /\ timerIntervals' =
           SetInterval(IF timerHasCleanup
                       THEN Cleanup(timerIntervals, timerInterval)
                       ELSE timerIntervals, timerNextHandle)
    /\ timerInterval' = timerNextHandle
    /\ timerNextHandle' = timerNextHandle + 1
    /\ timerHasCleanup' = ReturnsCleanup(timerVariant)
    /\ UNCHANGED <<timerVariant, timerMounted, timerMounts, time, shownTime,
                   timerTicks, timerLateTicks>>
    /\ UNCHANGED notTimer

\* The callback of active interval h fires: setTime(1). The state of an
\* unmounted Timer is gone, and the update is dropped.
TimerCallback(h) ==
    /\ h \in timerIntervals
    /\ IF timerMounted /\ h = timerInterval
       THEN /\ timerTicks < MaxCount
            /\ time' = SetTimeArg(time)
            /\ timerTicks' = timerTicks + 1
            /\ UNCHANGED timerLateTicks
       ELSE /\ timerLateTicks < MaxLate
            /\ timerLateTicks' = timerLateTicks + 1
            /\ UNCHANGED <<time, timerTicks>>
    /\ UNCHANGED <<timerVariant, timerMounted, timerMounts, shownTime,
                   timerEffectPending, timerInterval, timerHasCleanup,
                   timerIntervals, timerNextHandle>>
    /\ UNCHANGED notTimer

\* Timer re-renders after setTime changed its state.
TimerRender ==
    /\ timerMounted
    /\ time # shownTime
    /\ ~timerEffectPending
    /\ shownTime' = time
    /\ timerEffectPending' = EffectScheduled(FALSE, TimerDeps, TimerDeps)
    /\ UNCHANGED <<timerVariant, timerMounted, timerMounts, time,
                   timerInterval, timerHasCleanup, timerIntervals,
                   timerNextHandle, timerTicks, timerLateTicks>>
    /\ UNCHANGED notTimer

\* Timer is unmounted; the cleanup function runs, if the effect returned
\* one.
TimerUnmount ==
    /\ timerMounted
    /\ ~timerEffectPending
    /\ timerMounted' = FALSE
    /\ timerIntervals' = IF timerHasCleanup
                         THEN Cleanup(timerIntervals, timerInterval)
                         ELSE timerIntervals
    /\ timerHasCleanup' = FALSE
    /\ UNCHANGED <<timerVariant, timerMounts, time, shownTime,
                   timerEffectPending, timerInterval, timerNextHandle,
                   timerTicks, timerLateTicks>>
    /\ UNCHANGED notTimer

TimerNext ==
    \/ \E variant \in TimerVariants : TimerMount(variant)
    \/ TimerEffect
    \/ \E h \in timerIntervals : TimerCallback(h)
    \/ TimerRender
    \/ TimerUnmount

----------------------------------------------------------------------------
(* README.md, "How to avoid common mistakes with useEffect": MyComponent,  *)
(* whose effect fetches and stores the result in its state, first with no  *)
(* dependency array, then with the empty one. Every result of a fetch is a *)
(* new value, another reference than the state holds. The fetch resolves:  *)
(* the effect is one that sets state.                                      *)

MyComponentVariants == {"no array", "empty array"}

MyComponentDepsEmpty(variant) == Deps(<< >>)

\* The second argument of useEffect in the two variants.
MyComponentDeps(variant) ==
    IF variant = "no array" THEN NoDeps ELSE Deps(<< >>)

\* The references a fetch can resolve to; 0 is the [] of useState([]).
Refs == 1..MaxRefs

\* A history counter that stops at MaxRuns.
Counted(n) == IF n < MaxRuns THEN n + 1 ELSE n

MyComponentInit ==
    /\ mcVariant = "no array"
    /\ mcMounted = FALSE
    /\ mcMounts = 0
    /\ data = 0
    /\ shownData = 0
    /\ mcEffectPending = FALSE
    /\ mcFetching = {}
    /\ mcEffectRuns = 0
    /\ mcRenders = 0

\* MyComponent is mounted: useState([]), first render, effect scheduled.
MyComponentMount(variant) ==
    /\ ~mcMounted
    /\ mcMounts < MaxMounts
    /\ mcVariant' = variant
    /\ mcMounted' = TRUE
    /\ mcMounts' = mcMounts + 1
    /\ data' = 0
    /\ shownData' = 0
    /\ mcEffectPending' =
           EffectScheduled(TRUE, MyComponentDeps(variant), MyComponentDeps(variant))
    /\ mcEffectRuns' = 0
    /\ mcRenders' = 1
    /\ UNCHANGED mcFetching
    /\ UNCHANGED notMyComponent

\* The effect of MyComponent: the fetch starts.
MyComponentEffect ==
    /\ mcMounted
    /\ mcEffectPending
    /\ mcEffectPending' = FALSE
    /\ mcFetching' = mcFetching \cup {mcMounts}
    /\ mcEffectRuns' = Counted(mcEffectRuns)
    /\ UNCHANGED <<mcVariant, mcMounted, mcMounts, data, shownData, mcRenders>>
    /\ UNCHANGED notMyComponent

\* The fetch of mount m resolves to ref: .then(myData => setData(myData)).
\* The update of a fetch that outlives its component is dropped.
FetchResolve(m, ref) ==
    /\ m \in mcFetching
    /\ ref # data
    /\ mcFetching' = mcFetching \ {m}
    /\ data' = IF mcMounted /\ m = mcMounts THEN ref ELSE data
    /\ UNCHANGED <<mcVariant, mcMounted, mcMounts, shownData, mcEffectPending,
                   mcEffectRuns, mcRenders>>
    /\ UNCHANGED notMyComponent

\* MyComponent re-renders after setData changed its state.
MyComponentRender ==
    /\ mcMounted
    /\ data # shownData
    /\ ~mcEffectPending
    /\ shownData' = data
    /\ mcEffectPending' =
           EffectScheduled(FALSE, MyComponentDeps(mcVariant), MyComponentDeps(mcVariant))
    /\ mcRenders' = Counted(mcRenders)
    /\ UNCHANGED <<mcVariant, mcMounted, mcMounts, data, mcFetching, mcEffectRuns>>
    /\ UNCHANGED notMyComponent

\* MyComponent is unmounted (its effect returns no cleanup).
MyComponentUnmount ==
    /\ mcMounted
    /\ ~mcEffectPending
    /\ mcMounted' = FALSE
    /\ UNCHANGED <<mcVariant, mcMounts, data, shownData, mcEffectPending,
                   mcFetching, mcEffectRuns, mcRenders>>
    /\ UNCHANGED notMyComponent

MyComponentNext ==
    \/ \E variant \in MyComponentVariants : MyComponentMount(variant)
    \/ MyComponentEffect
    \/ \E m \in mcFetching, ref \in Refs : FetchResolve(m, ref)
    \/ MyComponentRender
    \/ MyComponentUnmount

----------------------------------------------------------------------------
(* README.md: User, whose effect sets document.title and depends on        *)
(* [name], and Counter, whose effect logs count and depends on [count].    *)
(* User is re-rendered by its parent, with the same name or another;       *)
(* Counter by a change of its state or by its parent.                      *)

Names == {"Alex", "John Doe"}

\* The dependency array of User's effect, in a render with name n.
UserDeps(n) == Deps(<<n>>)

\* The dependency array of Counter's effect, in a render with count c.
CounterDeps(c) == Deps(<<c>>)

\* <User name="Alex" /> and Counter after their first render, the effects
\* scheduled; the document still has the title it was loaded with.
DepsInit ==
    /\ name = "Alex"
    /\ documentTitle = ""
    /\ userEffectPending = EffectScheduled(TRUE, UserDeps("Alex"), UserDeps("Alex"))
    /\ userRenders = 0
    /\ userChanges = 0
    /\ userEffectRuns = 0
    /\ counterCount = 0
    /\ shownCounterCount = 0
    /\ counterEffectPending = EffectScheduled(TRUE, CounterDeps(0), CounterDeps(0))
    /\ log = << >>
    /\ counterRenders = 0
    /\ counterChanges = 0

\* User is rendered again, with name n.
UserRender(n) ==
    /\ userRenders < MaxRenders
    /\ ~userEffectPending
    /\ name' = n
    /\ userEffectPending' = EffectScheduled(FALSE, UserDeps(name), UserDeps(n))
    /\ userRenders' = userRenders + 1
    /\ userChanges' = IF n # name THEN userChanges + 1 ELSE userChanges
    /\ UNCHANGED <<documentTitle, userEffectRuns, counterCount,
                   shownCounterCount, counterEffectPending, log,
                   counterRenders, counterChanges>>
    /\ UNCHANGED notDeps

\* The effect of User: document.title = name.
UserEffect ==
    /\ userEffectPending
    /\ userEffectPending' = FALSE
    /\ documentTitle' = name
    /\ userEffectRuns' = userEffectRuns + 1
    /\ UNCHANGED <<name, userRenders, userChanges, counterCount,
                   shownCounterCount, counterEffectPending, log,
                   counterRenders, counterChanges>>
    /\ UNCHANGED notDeps

\* The rest of Counter calls setCount(c).
CounterSetCount(c) ==
    /\ c # counterCount
    /\ counterCount' = c
    /\ UNCHANGED <<name, documentTitle, userEffectPending, userRenders,
                   userChanges, userEffectRuns, shownCounterCount,
                   counterEffectPending, log, counterRenders, counterChanges>>
    /\ UNCHANGED notDeps

\* Counter is rendered again, with the latest count.
CounterRender ==
    /\ counterRenders < MaxRenders
    /\ ~counterEffectPending
    /\ shownCounterCount' = counterCount
    /\ counterEffectPending' =
           EffectScheduled(FALSE, CounterDeps(shownCounterCount),
                           CounterDeps(counterCount))
    /\ counterRenders' = counterRenders + 1
    /\ counterChanges' = IF counterCount # shownCounterCount
                         THEN counterChanges + 1 ELSE counterChanges
    /\ UNCHANGED <<name, documentTitle, userEffectPending, userRenders,
                   userChanges, userEffectRuns, counterCount, log>>
    /\ UNCHANGED notDeps

\* The effect of Counter: console.log('Count has changed:', count).
CounterEffect ==
    /\ counterEffectPending
    /\ counterEffectPending' = FALSE
    /\ log' = Append(log, shownCounterCount)
    /\ UNCHANGED <<name, documentTitle, userEffectPending, userRenders,
                   userChanges, userEffectRuns, counterCount,
                   shownCounterCount, counterRenders, counterChanges>>
    /\ UNCHANGED notDeps

DepsNext ==
    \/ \E n \in Names : UserRender(n)
    \/ UserEffect
    \/ \E c \in 0..MaxValue : CounterSetCount(c)
    \/ CounterRender
    \/ CounterEffect

----------------------------------------------------------------------------
Init == AppInit /\ TimerInit /\ MyComponentInit /\ DepsInit

Next == AppNext

\* The example file: any interleaving of clicks, renders, effects and
\* interval callbacks.
Spec == Init /\ [][Next]_vars

\* The same, with what the framework and the browser's timers guarantee: a
\* scheduled effect runs, an active interval keeps firing, a state update
\* is rendered. Nothing obliges the user to click.
FairSpec ==
    /\ Spec
    /\ WF_vars(AppRender)
    /\ WF_vars(TimerComponentEffect)
    /\ WF_vars(\E h \in intervals : IntervalCallback(h))
    /\ WF_vars(TimerComponentRender)

\* The Timer components of the article.
SpecTimer == Init /\ [][TimerNext]_vars

\* The MyComponent components of the article; a scheduled effect runs, the
\* fetch resolves, a state update is rendered.
SpecMyComponent ==
    /\ Init /\ [][MyComponentNext]_vars
    /\ WF_vars(MyComponentEffect)
    /\ WF_vars(\E m \in mcFetching, ref \in Refs : FetchResolve(m, ref))
    /\ WF_vars(MyComponentRender)

\* User and Counter.
SpecDeps == Init /\ [][DepsNext]_vars

----------------------------------------------------------------------------
(* Properties of examples/cleanUpFunction.js                               *)

C2_CountIsTicks == mounted => count = ticks

\* A remounted timer that counted up to the bound.
C2_Witness == mounted /\ unmounts > 0 /\ ticks = MaxCount /\ count = MaxCount

\* C3: a mounted TimerComponent that is not unmounted eventually has its
\* interval running, and eventually shows every count up to the bound.
C3_CountsUp ==
    /\ [](mounted => <>(~mounted \/ interval \in intervals))
    /\ \A n \in 0..MaxCount : [](mounted => <>(~mounted \/ shownCount >= n))

\* A remounted timer showing the highest count of the model.
C3_Witness == mounted /\ unmounts > 0 /\ shownCount = MaxCount

\* C4: once TimerComponent was unmounted by a click, the interval its
\* effect started is still running.
C4_IntervalSurvivesUnmount ==
    (~mounted /\ unmounts > 0) => interval \in intervals

\* C10: the cleanup function runs in the step that unmounts TimerComponent,
\* once, after the effect of that mount ran and returned it, and in no
\* other step.
C10_CleanupOncePerUnmount ==
    [][/\ cleanupRuns' \in {cleanupRuns, cleanupRuns + 1}
       /\ (cleanupRuns' # cleanupRuns) <=> (mounted /\ ~mounted')
       /\ (cleanupRuns' # cleanupRuns) =>
              effectRuns = 1 /\ hasCleanup /\ interval \notin intervals']_vars

\* Two unmounts, each with its cleanup run, of timers that had re-rendered.
C10_Witness == unmounts = 2 /\ cleanupRuns = 2 /\ shownCount > 0

\* C11: before any click showTimer is true; TimerComponent is mounted
\* exactly when the showTimer that App's last render read is true, and
\* exactly then the button reads 'Unmount Timer', otherwise 'Mount Timer';
\* a click asks for the opposite of what is shown, and the re-render that
\* follows unmounts a shown timer and mounts a hidden one.
C11_MountedIffShowTimer ==
    /\ [](/\ clicks = 0 => showTimer
          /\ mounted <=> renderedShowTimer
          /\ (buttonLabel = "Unmount Timer") <=> mounted
          /\ (buttonLabel = "Mount Timer") <=> ~mounted)
    /\ [][/\ clicks' # clicks => showTimer' = ~mounted
          /\ renderedShowTimer' # renderedShowTimer =>
                 mounted' = showTimer /\ mounted' = ~mounted]_vars

C13_MountStartsAtZero ==
    /\ []((mounted /\ ticks = 0) => (count = 0 /\ shownCount = 0))
    /\ [][(~mounted /\ mounted') => (count' = 0 /\ shownCount' = 0)]_vars

\* The third mount of the timer, its effect run and its interval not yet
\* fired.
C13_Witness ==
    mounted /\ unmounts = 2 /\ ticks = 0 /\ count = 0 /\ interval = 3

\* C14: after n calls of toggleTimer, showTimer is true exactly when n
\* is even.
C14_EveryClickFlips == showTimer <=> (clicks % 2 = 0)

\* The timer was unmounted by one click and mounted again by the next.
C11_Witness ==
    /\ clicks = 2 /\ unmounts = 1 /\ mounted
    /\ showTimer /\ buttonLabel = "Unmount Timer"

----------------------------------------------------------------------------
(* Properties of the components of README.md                               *)

\* C5: the interval started by the effect of a Timer without cleanup stays
\* active, also once that Timer is unmounted, and its callback can then
\* still fire (up to the bound of the model).
C5_IntervalLeaks ==
    (timerVariant = "no cleanup" /\ timerInterval # 0) =>
        /\ timerInterval \in timerIntervals
        /\ (~timerMounted /\ timerLateTicks < MaxLate) =>
               ENABLED TimerCallback(timerInterval)

\* A Timer without cleanup is unmounted and its callback has fired since.
C5_Witness ==
    /\ timerVariant = "no cleanup"
    /\ ~timerMounted
    /\ timerLateTicks > 0
    /\ timerInterval \in timerIntervals

\* C6: while Timer is mounted, time is the number of interval callbacks
\* fired since it was mounted.
C6_TimeCountsUp == timerMounted => time = timerTicks

\* A scheduled effect counts as one run to come.
Pending(scheduled) == IF scheduled THEN 1 ELSE 0

\* MyComponent without dependency array is mounted.
Looping == mcMounted /\ mcVariant = "no array"

\* C7: while MyComponent without dependency array is mounted, a step of
\* the cycle is always waiting (the effect, the fetch it started, or the
\* render of the state it set), and the effect is scheduled again and again.
C7_NeverQuiescent ==
    /\ [](Looping =>
             mcEffectPending \/ mcMounts \in mcFetching \/ data # shownData)
    /\ []<>(~Looping \/ mcEffectPending)
    /\ []<>(~Looping \/ ~mcEffectPending)

\* The cycle went round until the counters of the history stopped.
C7_Witness ==
    Looping /\ mcEffectRuns = MaxRuns /\ mcRenders = MaxRuns /\ mcEffectPending

\* C8: while MyComponent with the empty dependency array is mounted, its
\* effect has run once or is scheduled for its one run, whatever the
\* number of renders.
C8_EffectRunsOnce ==
    (mcMounted /\ mcVariant = "empty array") =>
        /\ mcEffectRuns + Pending(mcEffectPending) = 1
        /\ mcEffectRuns <= mcRenders

\* The state update of the effect was rendered, and the effect ran once.
C8_Witness ==
    /\ mcMounted /\ mcVariant = "empty array"
    /\ mcRenders = 2 /\ shownData # 0 /\ mcEffectRuns = 1 /\ ~mcEffectPending

\* C9: the effects of User and of Counter run after the first render and
\* after each re-render in which the dependency changed, and after no
\* other; with no effect of User scheduled, document.title is the name
\* prop; the log holds the first count and then one entry per change.
C9_RunsWhenDependencyChanged ==
    /\ userEffectRuns + Pending(userEffectPending) = 1 + userChanges
    /\ ~userEffectPending => documentTitle = name
    /\ Len(log) + Pending(counterEffectPending) = 1 + counterChanges
    /\ ~counterEffectPending => log[Len(log)] = shownCounterCount
    /\ \A i \in 2..Len(log) : log[i] # log[i - 1]

\* User was re-rendered with the same name and with another, Counter with
\* the same count and with another, and all effects have run.
C9_Witness ==
    /\ userRenders = 2 /\ userChanges = 1 /\ ~userEffectPending
    /\ documentTitle = "John Doe"
    /\ counterRenders = 3 /\ counterChanges = 2 /\ ~counterEffectPending
    /\ Len(log) = 3

====
